---- MODULE Spec2Model ----
(***************************************************************************)
(* Job orchestration layer of the Echo stems plugin                        *)
(* (src/plugins/stems/app.py).                                             *)
(*                                                                         *)
(* Execution model.  Every handler and the background worker               *)
(* process_separation are coroutines of one asyncio event loop.  A         *)
(* coroutine gives up the loop only at an await.  process_separation       *)
(* (lines 117-184) contains no await, so once it has started no handler    *)
(* runs until it has returned; get_job_status, download_stem and           *)
(* delete_job contain no await either.  separate_audio has one, the        *)
(* `await file.read()` of line 207, and the worker it registers at line    *)
(* 224 is started by the framework after the response has been sent,       *)
(* which is a further point where other coroutines may run.                *)
(*                                                                         *)
(* The variable `running` is the worker that holds the event loop (0 when  *)
(* the loop is free).  The worker's statements are separate steps so that  *)
(* the order of its writes is part of the behaviour, but request handlers  *)
(* are enabled only while the loop is free.  A handler's return value is   *)
(* held in `resp` until SendResponse has sent it; the next handler or      *)
(* background task starts after that.                                      *)
(*                                                                         *)
(* progress is kept in tenths (0.2 is 2, 1.0 is 10).  Optional fields are  *)
(* sequences of length at most one: <<>> is None, <<x>> is the value x.    *)
(***************************************************************************)
EXTENDS Integers, FiniteSets, Sequences, TLC

\* ---------------------------------------------------------------- bounds
MaxJobs == 2
NumSources == 2

\* ------------------------------------------------------------- constants
PROGRESS_START == 0
PROGRESS_LOADED == 2
PROGRESS_SEPARATED == 8
PROGRESS_DONE == 10

HTTP_OK == 200
HTTP_NOT_READY == 400
HTTP_NOT_FOUND == 404
HTTP_ERROR == 500
HTTP_UNAVAILABLE == 503

Ids == 1..MaxJobs
NoWorker == 0

AllSources == <<"drums", "bass", "other", "vocals", "guitar", "piano">>
\* separator.sources: the stems the loaded model declares, in order
Sources == SubSeq(AllSources, 1, NumSources)
\* stem names a client may ask for: the declared ones and one that is not
StemNames == {Sources[i] : i \in 1..Len(Sources)} \cup {"unknown"}

None == <<>>
Some(x) == <<x>>

VARIABLES
    separator,  \* TRUE iff the global model reference is not None
    jobs,       \* the jobs dict: job id -> JobStatus
    issued,     \* ids uuid4 has produced so far
    uploads,    \* separate_audio requests suspended at `await file.read()`
    inputs,     \* job ids whose input file exists under DATA_DIR/input
    outdirs,    \* job ids whose directory DATA_DIR/output/<id> exists
    outfiles,   \* existing stem files, as <<job id, stem name>>
    wk,         \* background tasks: job id -> [pc, i, stems, exc]
    running,    \* the worker that holds the event loop, or NoWorker
    resp        \* the response a handler has returned and that is not sent yet

vars == <<separator, jobs, issued, uploads, inputs, outdirs, outfiles, wk,
          running, resp>>

fs == <<inputs, outdirs, outfiles>>

\* ------------------------------------------------------------ data model
JobStatus(job_id, status, progress) ==
    [job_id |-> job_id, status |-> status, progress |-> progress,
     error |-> None, stems |-> None]

Response(op, id, code, body) ==
    [op |-> op, id |-> id, code |-> code, body |-> body]

\* no response is waiting to be sent
NoResponse == Response("none", 0, 0, None)

stem_path(job_id, stem_name) == <<job_id, stem_name>>

FilesOf(job_id) == {f \in outfiles : f[1] = job_id}

Remove(f, k) == [x \in DOMAIN f \ {k} |-> f[x]]

\* fault variant of uuid4: the generator repeats an identifier
uuid4_reused(seen) == 1

\* a fresh identifier; ids are opaque, so the next unused one stands for it
uuid4(seen) == Cardinality(seen) + 1

Init ==
    /\ separator \in BOOLEAN
    /\ jobs = <<>>
    /\ issued = {}
    /\ uploads = {}
    /\ inputs = {}
    /\ outdirs = {}
    /\ outfiles = {}
    /\ wk = <<>>
    /\ running = NoWorker
    /\ resp = NoResponse

\* ------------------------------------------------------ request handlers
LoopFree == running = NoWorker

\* a handler or a queued task starts when no worker holds the loop and the
\* response of the request before it has been sent
Idle == LoopFree /\ resp = NoResponse

\* fault variant of SubmitUnavailable: the model check comes after the
\* upload has been written
SubmitUnavailable_staged ==
    /\ Idle
    /\ ~separator
    /\ Cardinality(issued) < MaxJobs
    /\ issued' = issued \cup {uuid4(issued)}
    /\ inputs' = inputs \cup {uuid4(issued)}
    /\ resp' = Response("Submit", 0, HTTP_UNAVAILABLE, None)
    /\ UNCHANGED <<separator, jobs, uploads, outdirs, outfiles, wk, running>>

\* separate_audio, lines 196-197: the model is not loaded
SubmitUnavailable ==
    /\ Idle
    /\ ~separator
    /\ resp' = Response("Submit", 0, HTTP_UNAVAILABLE, None)
    /\ UNCHANGED <<separator, jobs, issued, uploads, fs, wk, running>>

\* separate_audio, lines 196-207: id generated, suspended at file.read()
SubmitBegin ==
    /\ Idle
    /\ separator
    /\ Cardinality(issued) < MaxJobs
    /\ issued' = issued \cup {uuid4(issued)}
    /\ uploads' = uploads \cup {uuid4(issued)}
    /\ UNCHANGED resp
    /\ UNCHANGED <<separator, jobs, fs, wk, running>>

\* fault variant of SubmitStage: the output directory is created at
\* submission
SubmitStage_mkdir(job_id) ==
    /\ Idle
    /\ job_id \in uploads
    /\ uploads' = uploads \ {job_id}
    /\ \/ /\ inputs' = inputs \cup {job_id}
          /\ outdirs' = outdirs \cup {job_id}
          /\ jobs' = (job_id :> JobStatus(job_id, "pending", PROGRESS_START)) @@ jobs
          /\ wk' = (job_id :> [pc |-> "queued", i |-> 0,
                               stems |-> <<>>, exc |-> ""]) @@ wk
          /\ resp' = Response("Submit", job_id, HTTP_OK, None)
       \/ /\ \E left \in BOOLEAN :
               inputs' = IF left THEN inputs \cup {job_id} ELSE inputs
          /\ resp' = Response("Submit", 0, HTTP_ERROR, None)
          /\ UNCHANGED <<jobs, wk, outdirs>>
    /\ UNCHANGED <<separator, issued, outfiles, running>>

\* fault variant of SubmitStage: the job is registered before staging is
\* known to have succeeded
SubmitStage_registers(job_id) ==
    /\ Idle
    /\ job_id \in uploads
    /\ uploads' = uploads \ {job_id}
    /\ \E ok \in BOOLEAN :
         /\ inputs' = IF ok THEN inputs \cup {job_id} ELSE inputs
         /\ jobs' = (job_id :> JobStatus(job_id, "pending", PROGRESS_START)) @@ jobs
         /\ IF ok
            THEN /\ wk' = (job_id :> [pc |-> "queued", i |-> 0,
                                      stems |-> <<>>, exc |-> ""]) @@ wk
                 /\ resp' = Response("Submit", job_id, HTTP_OK, None)
            ELSE /\ wk' = wk
                 /\ resp' = Response("Submit", 0, HTTP_ERROR, None)
    /\ UNCHANGED <<separator, issued, outdirs, outfiles, running>>

\* separate_audio, lines 207-228: stage the upload, register, dispatch
SubmitStage(job_id) ==
    /\ Idle
    /\ job_id \in uploads
    /\ uploads' = uploads \ {job_id}
    /\ \/ \* lines 208-228: the file is written
          /\ inputs' = inputs \cup {job_id}
          /\ jobs' = (job_id :> JobStatus(job_id, "pending", PROGRESS_START)) @@ jobs
          /\ wk' = (job_id :> [pc |-> "queued", i |-> 0,
                               stems |-> <<>>, exc |-> ""]) @@ wk
          /\ resp' = Response("Submit", job_id, HTTP_OK, None)
       \/ \* lines 210-211: read, open or write raised; a file that was
          \* opened may be left behind
          /\ \E left \in BOOLEAN :
               inputs' = IF left THEN inputs \cup {job_id} ELSE inputs
          /\ resp' = Response("Submit", 0, HTTP_ERROR, None)
          /\ UNCHANGED <<jobs, wk>>
    /\ UNCHANGED <<separator, issued, outdirs, outfiles, running>>

\* get_job_status, lines 232-237
get_job_status(job_id) ==
    IF job_id \notin DOMAIN jobs
    THEN Response("GetStatus", job_id, HTTP_NOT_FOUND, None)
    ELSE Response("GetStatus", job_id, HTTP_OK, Some(jobs[job_id]))

GetStatus(job_id) ==
    /\ Idle
    /\ resp' = get_job_status(job_id)
    /\ UNCHANGED <<separator, jobs, issued, uploads, fs, wk, running>>

\* fault variant of download_stem: the status test of line 248 is missing
download_stem_unchecked(job_id, stem_name) ==
    IF job_id \notin DOMAIN jobs
    THEN Response("DownloadStem", job_id, HTTP_NOT_FOUND, None)
    ELSE IF \/ jobs[job_id].stems = None
            \/ stem_name \notin DOMAIN jobs[job_id].stems[1]
    THEN Response("DownloadStem", job_id, HTTP_NOT_FOUND, None)
    ELSE IF jobs[job_id].stems[1][stem_name] \notin outfiles
    THEN Response("DownloadStem", job_id, HTTP_NOT_FOUND, None)
    ELSE Response("DownloadStem", job_id, HTTP_OK,
                  Some(jobs[job_id].stems[1][stem_name]))

\* fault variant of download_stem: the existence test of line 256 is missing
download_stem_unverified(job_id, stem_name) ==
    IF job_id \notin DOMAIN jobs
    THEN Response("DownloadStem", job_id, HTTP_NOT_FOUND, None)
    ELSE IF jobs[job_id].status # "completed"
    THEN Response("DownloadStem", job_id, HTTP_NOT_READY, None)
    ELSE IF \/ jobs[job_id].stems = None
            \/ stem_name \notin DOMAIN jobs[job_id].stems[1]
    THEN Response("DownloadStem", job_id, HTTP_NOT_FOUND, None)
    ELSE Response("DownloadStem", job_id, HTTP_OK,
                  Some(jobs[job_id].stems[1][stem_name]))

\* download_stem, lines 241-263
download_stem(job_id, stem_name) ==
    IF job_id \notin DOMAIN jobs
    THEN Response("DownloadStem", job_id, HTTP_NOT_FOUND, None)
    ELSE IF jobs[job_id].status # "completed"
    THEN Response("DownloadStem", job_id, HTTP_NOT_READY, None)
    ELSE IF \/ jobs[job_id].stems = None
            \/ DOMAIN jobs[job_id].stems[1] = {}
            \/ stem_name \notin DOMAIN jobs[job_id].stems[1]
    THEN Response("DownloadStem", job_id, HTTP_NOT_FOUND, None)
    ELSE IF jobs[job_id].stems[1][stem_name] \notin outfiles
    THEN Response("DownloadStem", job_id, HTTP_NOT_FOUND, None)
    ELSE Response("DownloadStem", job_id, HTTP_OK,
                  Some(jobs[job_id].stems[1][stem_name]))

DownloadStem(job_id, stem_name) ==
    /\ Idle
    /\ resp' = download_stem(job_id, stem_name)
    /\ UNCHANGED <<separator, jobs, issued, uploads, fs, wk, running>>

\* fault variant of DeleteJob: the whole output area is removed, not the
\* directory of the job
delete_job_clears_output(job_id) ==
    /\ Idle
    /\ IF job_id \notin DOMAIN jobs
       THEN /\ resp' = Response("DeleteJob", job_id, HTTP_NOT_FOUND, None)
            /\ UNCHANGED <<jobs, outdirs, outfiles>>
       ELSE /\ outdirs' = {}
            /\ outfiles' = {}
            /\ jobs' = Remove(jobs, job_id)
            /\ resp' = Response("DeleteJob", job_id, HTTP_OK, None)
    /\ UNCHANGED <<separator, issued, uploads, inputs, wk, running>>

\* fault variant of DeleteJob: the entry is removed before the tree
delete_job_entry_first(job_id) ==
    /\ Idle
    /\ IF job_id \notin DOMAIN jobs
       THEN /\ resp' = Response("DeleteJob", job_id, HTTP_NOT_FOUND, None)
            /\ UNCHANGED <<jobs, outdirs, outfiles>>
       ELSE /\ jobs' = Remove(jobs, job_id)
            /\ \/ /\ outdirs' = outdirs \ {job_id}
                  /\ outfiles' = outfiles \ FilesOf(job_id)
                  /\ resp' = Response("DeleteJob", job_id, HTTP_OK, None)
               \/ /\ job_id \in outdirs
                  /\ \E removed \in SUBSET FilesOf(job_id) :
                       outfiles' = outfiles \ removed
                  /\ resp' = Response("DeleteJob", job_id, HTTP_ERROR, None)
                  /\ UNCHANGED outdirs
    /\ UNCHANGED <<separator, issued, uploads, inputs, wk, running>>

\* fault variant of DeleteJob: the entry is removed, the output tree is not
delete_job_keeps_files(job_id) ==
    /\ Idle
    /\ IF job_id \notin DOMAIN jobs
       THEN /\ resp' = Response("DeleteJob", job_id, HTTP_NOT_FOUND, None)
            /\ UNCHANGED <<jobs, outdirs, outfiles>>
       ELSE /\ jobs' = Remove(jobs, job_id)
            /\ resp' = Response("DeleteJob", job_id, HTTP_OK, None)
            /\ UNCHANGED <<outdirs, outfiles>>
    /\ UNCHANGED <<separator, issued, uploads, inputs, wk, running>>

\* delete_job, lines 267-283
DeleteJob(job_id) ==
    /\ Idle
    /\ IF job_id \notin DOMAIN jobs
       THEN \* lines 269-270
            /\ resp' = Response("DeleteJob", job_id, HTTP_NOT_FOUND, None)
            /\ UNCHANGED <<jobs, outdirs, outfiles>>
       ELSE \/ \* lines 276-283: the tree, if any, is removed, then the entry
               /\ outdirs' = outdirs \ {job_id}
               /\ outfiles' = outfiles \ FilesOf(job_id)
               /\ jobs' = Remove(jobs, job_id)
               /\ resp' = Response("DeleteJob", job_id, HTTP_OK, None)
            \/ \* line 278: rmtree raises after removing some of the files;
               \* the directory is still there and line 281 is not reached
               /\ job_id \in outdirs
               /\ \E removed \in SUBSET FilesOf(job_id) :
                    outfiles' = outfiles \ removed
               /\ resp' = Response("DeleteJob", job_id, HTTP_ERROR, None)
               /\ UNCHANGED <<jobs, outdirs>>
    /\ UNCHANGED <<separator, issued, uploads, inputs, wk, running>>

\* the response returned by a handler is sent to the client
SendResponse ==
    /\ resp # NoResponse
    /\ resp' = NoResponse
    /\ UNCHANGED <<separator, jobs, issued, uploads, fs, wk, running>>

\* ------------------------------------------------- process_separation
At(job_id, pc) ==
    /\ running = job_id
    /\ job_id \in DOMAIN wk
    /\ wk[job_id].pc = pc

Goto(job_id, pc) == wk' = [wk EXCEPT ![job_id].pc = pc]

\* an exception raised inside the try block is caught at line 181
Raise(job_id, msg) == wk' = [wk EXCEPT ![job_id].pc = "l183", ![job_id].exc = msg]

\* the coroutine returns or raises: its locals are gone, the loop is free
Finish(job_id, pc, exc) ==
    /\ wk' = [wk EXCEPT ![job_id] = [pc |-> pc, i |-> 0, stems |-> <<>>,
                                     exc |-> exc]]
    /\ running' = NoWorker

\* fault variant of Worker122: a missing record is created by the write
Worker122_upserts(job_id) ==
    /\ Idle
    /\ job_id \in DOMAIN wk
    /\ wk[job_id].pc = "queued"
    /\ running' = job_id
    /\ jobs' = IF job_id \in DOMAIN jobs
               THEN [jobs EXCEPT ![job_id].status = "processing"]
               ELSE (job_id :> JobStatus(job_id, "processing", PROGRESS_START))
                    @@ jobs
    /\ Goto(job_id, "l123")
    /\ UNCHANGED resp
    /\ UNCHANGED <<separator, issued, uploads, fs>>

\* fault variant of Worker122: the task starts without writing the status
Worker122_skipped(job_id) ==
    /\ Idle
    /\ job_id \in DOMAIN wk
    /\ wk[job_id].pc = "queued"
    /\ running' = job_id
    /\ IF job_id \in DOMAIN jobs
       THEN Goto(job_id, "l123")
       ELSE Raise(job_id, "KeyError")
    /\ UNCHANGED resp
    /\ UNCHANGED <<separator, jobs, issued, uploads, fs>>

\* line 122: the task starts and writes status = "processing"
Worker122(job_id) ==
    /\ Idle
    /\ job_id \in DOMAIN wk
    /\ wk[job_id].pc = "queued"
    /\ running' = job_id
    /\ IF job_id \in DOMAIN jobs
       THEN /\ jobs' = [jobs EXCEPT ![job_id].status = "processing"]
            /\ Goto(job_id, "l123")
       ELSE /\ jobs' = jobs
            /\ Raise(job_id, "KeyError")
    /\ UNCHANGED resp
    /\ UNCHANGED <<separator, issued, uploads, fs>>

\* line 123: progress = 0.0
Worker123(job_id) ==
    /\ At(job_id, "l123")
    /\ IF job_id \in DOMAIN jobs
       THEN /\ jobs' = [jobs EXCEPT ![job_id].progress = PROGRESS_START]
            /\ Goto(job_id, "l125")
       ELSE /\ jobs' = jobs
            /\ Raise(job_id, "KeyError")
    /\ UNCHANGED resp
    /\ UNCHANGED <<separator, issued, uploads, fs, running>>

\* fault variant of Worker125: the test of the model reference is missing
Worker125_unchecked(job_id) ==
    /\ At(job_id, "l125")
    /\ Goto(job_id, "l134")
    /\ UNCHANGED resp
    /\ UNCHANGED <<separator, jobs, issued, uploads, fs, running>>

\* lines 125-126: the model must be loaded
Worker125(job_id) ==
    /\ At(job_id, "l125")
    /\ IF separator
       THEN Goto(job_id, "l134")
       ELSE Raise(job_id, "Model not loaded")
    /\ UNCHANGED resp
    /\ UNCHANGED <<separator, jobs, issued, uploads, fs, running>>

\* lines 134-149: load the audio, resample, force stereo
Worker134(job_id) ==
    /\ At(job_id, "l134")
    /\ \/ Goto(job_id, "l151")
       \/ Raise(job_id, "load failed")
       \/ Raise(job_id, "resample failed")
    /\ UNCHANGED resp
    /\ UNCHANGED <<separator, jobs, issued, uploads, fs, running>>

\* fault variant of Worker151: the checkpoint writes 1.0 instead of 0.2
Worker151_done(job_id) ==
    /\ At(job_id, "l151")
    /\ IF job_id \in DOMAIN jobs
       THEN /\ jobs' = [jobs EXCEPT ![job_id].progress = PROGRESS_DONE]
            /\ Goto(job_id, "l156")
       ELSE /\ jobs' = jobs
            /\ Raise(job_id, "KeyError")
    /\ UNCHANGED resp
    /\ UNCHANGED <<separator, issued, uploads, fs, running>>

\* line 151: progress = 0.2
Worker151(job_id) ==
    /\ At(job_id, "l151")
    /\ IF job_id \in DOMAIN jobs
       THEN /\ jobs' = [jobs EXCEPT ![job_id].progress = PROGRESS_LOADED]
            /\ Goto(job_id, "l156")
       ELSE /\ jobs' = jobs
            /\ Raise(job_id, "KeyError")
    /\ UNCHANGED resp
    /\ UNCHANGED <<separator, issued, uploads, fs, running>>

\* lines 155-156: apply_model
Worker156(job_id) ==
    /\ At(job_id, "l156")
    /\ \/ Goto(job_id, "l158")
       \/ Raise(job_id, "separation failed")
    /\ UNCHANGED resp
    /\ UNCHANGED <<separator, jobs, issued, uploads, fs, running>>

\* line 158: progress = 0.8
Worker158(job_id) ==
    /\ At(job_id, "l158")
    /\ IF job_id \in DOMAIN jobs
       THEN /\ jobs' = [jobs EXCEPT ![job_id].progress = PROGRESS_SEPARATED]
            /\ Goto(job_id, "l162")
       ELSE /\ jobs' = jobs
            /\ Raise(job_id, "KeyError")
    /\ UNCHANGED resp
    /\ UNCHANGED <<separator, issued, uploads, fs, running>>

\* lines 162-163: output_dir.mkdir(parents=True, exist_ok=True); stems = {}
Worker162(job_id) ==
    /\ At(job_id, "l162")
    /\ \/ /\ outdirs' = outdirs \cup {job_id}
          /\ wk' = [wk EXCEPT ![job_id].pc = "l165", ![job_id].i = 1,
                              ![job_id].stems = <<>>]
       \/ /\ outdirs' = outdirs
          /\ Raise(job_id, "mkdir failed")
    /\ UNCHANGED resp
    /\ UNCHANGED <<separator, jobs, issued, uploads, inputs, outfiles,
                   running>>

\* fault variant of Worker165: the loop stops after the first stem
Worker165_first_only(job_id) ==
    /\ At(job_id, "l165")
    /\ IF wk[job_id].i > 1
       THEN /\ Goto(job_id, "l173")
            /\ outfiles' = outfiles
       ELSE /\ outfiles' = outfiles \cup {stem_path(job_id, Sources[1])}
            /\ wk' = [wk EXCEPT
                        ![job_id].i = 2,
                        ![job_id].stems =
                            (Sources[1] :> stem_path(job_id, Sources[1]))
                            @@ wk[job_id].stems]
    /\ UNCHANGED resp
    /\ UNCHANGED <<separator, jobs, issued, uploads, inputs, outdirs,
                   running>>

\* lines 165-170: one pass of the loop over separator.sources
Worker165(job_id) ==
    /\ At(job_id, "l165")
    /\ LET i == wk[job_id].i
           stem_name == Sources[i]
       IN IF i > Len(Sources)
          THEN /\ Goto(job_id, "l173")
               /\ outfiles' = outfiles
          ELSE \/ \* lines 166-169: the stem is saved and recorded
                  /\ outfiles' = outfiles \cup {stem_path(job_id, stem_name)}
                  /\ wk' = [wk EXCEPT
                              ![job_id].i = i + 1,
                              ![job_id].stems =
                                  (stem_name :> stem_path(job_id, stem_name))
                                  @@ wk[job_id].stems]
               \/ \* line 168 raises; the file may exist, partly written
                  /\ \E partial \in BOOLEAN :
                       outfiles' = IF partial
                                   THEN outfiles \cup {stem_path(job_id, stem_name)}
                                   ELSE outfiles
                  /\ Raise(job_id, "save failed")
    /\ UNCHANGED resp
    /\ UNCHANGED <<separator, jobs, issued, uploads, inputs, outdirs,
                   running>>

\* line 173: input_path.unlink(missing_ok=True)
Worker173(job_id) ==
    /\ At(job_id, "l173")
    /\ \/ /\ inputs' = inputs \ {job_id}
          /\ Goto(job_id, "l175")
       \/ /\ job_id \in inputs
          /\ inputs' = inputs
          /\ Raise(job_id, "unlink failed")
    /\ UNCHANGED resp
    /\ UNCHANGED <<separator, jobs, issued, uploads, outdirs, outfiles,
                   running>>

\* line 175: status = "completed"
Worker175(job_id) ==
    /\ At(job_id, "l175")
    /\ IF job_id \in DOMAIN jobs
       THEN /\ jobs' = [jobs EXCEPT ![job_id].status = "completed"]
            /\ Goto(job_id, "l176")
       ELSE /\ jobs' = jobs
            /\ Raise(job_id, "KeyError")
    /\ UNCHANGED resp
    /\ UNCHANGED <<separator, issued, uploads, fs, running>>

\* line 176: progress = 1.0
Worker176(job_id) ==
    /\ At(job_id, "l176")
    /\ IF job_id \in DOMAIN jobs
       THEN /\ jobs' = [jobs EXCEPT ![job_id].progress = PROGRESS_DONE]
            /\ Goto(job_id, "l177")
       ELSE /\ jobs' = jobs
            /\ Raise(job_id, "KeyError")
    /\ UNCHANGED resp
    /\ UNCHANGED <<separator, issued, uploads, fs, running>>

\* lines 177-179: stems = stems; the coroutine returns
Worker177(job_id) ==
    /\ At(job_id, "l177")
    /\ IF job_id \in DOMAIN jobs
       THEN /\ jobs' = [jobs EXCEPT ![job_id].stems = Some(wk[job_id].stems)]
            /\ Finish(job_id, "done", "")
       ELSE /\ jobs' = jobs
            /\ Raise(job_id, "KeyError")
            /\ running' = running
    /\ UNCHANGED resp
    /\ UNCHANGED <<separator, issued, uploads, fs>>

\* fault variant of Worker183: the handler also removes the input file
Worker183_cleans(job_id) ==
    /\ At(job_id, "l183")
    /\ inputs' = inputs \ {job_id}
    /\ IF job_id \in DOMAIN jobs
       THEN /\ jobs' = [jobs EXCEPT ![job_id].status = "failed"]
            /\ Goto(job_id, "l184")
            /\ running' = running
       ELSE /\ jobs' = jobs
            /\ Finish(job_id, "crashed", "KeyError")
    /\ UNCHANGED resp
    /\ UNCHANGED <<separator, issued, uploads, outdirs, outfiles>>

\* fault variant of Worker183: the handler assigns a new failed record
\* instead of updating the existing one
Worker183_recreates(job_id) ==
    /\ At(job_id, "l183")
    /\ jobs' = (job_id :> [JobStatus(job_id, "failed", PROGRESS_START)
                             EXCEPT !.error = Some(wk[job_id].exc)]) @@ jobs
    /\ Finish(job_id, "done", "")
    /\ UNCHANGED resp
    /\ UNCHANGED <<separator, issued, uploads, fs>>

\* lines 181-183: the handler writes status = "failed"; a KeyError raised
\* by this write is outside the try block and leaves the coroutine
Worker183(job_id) ==
    /\ At(job_id, "l183")
    /\ IF job_id \in DOMAIN jobs
       THEN /\ jobs' = [jobs EXCEPT ![job_id].status = "failed"]
            /\ Goto(job_id, "l184")
            /\ running' = running
       ELSE /\ jobs' = jobs
            /\ Finish(job_id, "crashed", "KeyError")
    /\ UNCHANGED resp
    /\ UNCHANGED <<separator, issued, uploads, fs>>

\* fault variant of Worker184: the failed job is queued again
Worker184_retries(job_id) ==
    /\ At(job_id, "l184")
    /\ jobs' = [jobs EXCEPT ![job_id].error = Some(wk[job_id].exc)]
    /\ Finish(job_id, "queued", "")
    /\ UNCHANGED resp
    /\ UNCHANGED <<separator, issued, uploads, fs>>

\* fault variant of Worker184: the error message is not recorded
Worker184_silent(job_id) ==
    /\ At(job_id, "l184")
    /\ jobs' = jobs
    /\ Finish(job_id, "done", "")
    /\ UNCHANGED resp
    /\ UNCHANGED <<separator, issued, uploads, fs>>

\* line 184: error = str(e); the coroutine returns
Worker184(job_id) ==
    /\ At(job_id, "l184")
    /\ IF job_id \in DOMAIN jobs
       THEN /\ jobs' = [jobs EXCEPT ![job_id].error = Some(wk[job_id].exc)]
            /\ Finish(job_id, "done", "")
       ELSE /\ jobs' = jobs
            /\ Finish(job_id, "crashed", "KeyError")
    /\ UNCHANGED resp
    /\ UNCHANGED <<separator, issued, uploads, fs>>

\* ---------------------------------------------------------- specification
Next ==
    \/ SubmitUnavailable
    \/ SubmitBegin
    \/ \E job_id \in Ids : SubmitStage(job_id)
    \/ \E job_id \in Ids : GetStatus(job_id)
    \/ \E job_id \in Ids, stem_name \in StemNames : DownloadStem(job_id, stem_name)
    \/ \E job_id \in Ids : DeleteJob(job_id)
    \/ SendResponse
    \/ \E job_id \in Ids : Worker122(job_id)
    \/ \E job_id \in Ids : Worker123(job_id)
    \/ \E job_id \in Ids : Worker125(job_id)
    \/ \E job_id \in Ids : Worker134(job_id)
    \/ \E job_id \in Ids : Worker151(job_id)
    \/ \E job_id \in Ids : Worker156(job_id)
    \/ \E job_id \in Ids : Worker158(job_id)
    \/ \E job_id \in Ids : Worker162(job_id)
    \/ \E job_id \in Ids : Worker165(job_id)
    \/ \E job_id \in Ids : Worker173(job_id)
    \/ \E job_id \in Ids : Worker175(job_id)
    \/ \E job_id \in Ids : Worker176(job_id)
    \/ \E job_id \in Ids : Worker177(job_id)
    \/ \E job_id \in Ids : Worker183(job_id)
    \/ \E job_id \in Ids : Worker184(job_id)

Spec == Init /\ [][Next]_vars

\* the statements of process_separation after its first
WorkerStep(job_id) ==
    \/ Worker123(job_id) \/ Worker125(job_id) \/ Worker134(job_id)
    \/ Worker151(job_id) \/ Worker156(job_id) \/ Worker158(job_id)
    \/ Worker162(job_id) \/ Worker165(job_id) \/ Worker173(job_id)
    \/ Worker175(job_id) \/ Worker176(job_id) \/ Worker177(job_id)
    \/ Worker183(job_id) \/ Worker184(job_id)

\* The event loop runs every ready task: a response that was returned is
\* sent, a task registered at line 224 is started although requests keep
\* arriving (strong fairness: each request disables it for a moment), and
\* a worker that has started runs its statements to the end.
Fairness ==
    /\ WF_vars(SendResponse)
    /\ \A job_id \in Ids : SF_vars(Worker122(job_id))
    /\ \A job_id \in Ids : WF_vars(WorkerStep(job_id))

FairSpec == Spec /\ Fairness

\* process_separation called for jobs that are registered and staged,
\* whatever the value of the global separator: the states in which the
\* test of line 125 decides.  separate_audio refuses to register a job
\* while separator is None and nothing assigns separator after startup,
\* so under Init the raise of line 126 is never reached.
DirectInit ==
    /\ separator \in BOOLEAN
    /\ \E n \in 1..MaxJobs :
          /\ jobs = [j \in 1..n |-> JobStatus(j, "pending", PROGRESS_START)]
          /\ wk = [j \in 1..n |-> [pc |-> "queued", i |-> 0,
                                   stems |-> <<>>, exc |-> ""]]
          /\ issued = 1..n
          /\ inputs = 1..n
    /\ uploads = {}
    /\ outdirs = {}
    /\ outfiles = {}
    /\ running = NoWorker
    /\ resp = NoResponse

DirectSpec == DirectInit /\ [][Next]_vars

\* ------------------------------------------------------------ properties
Statuses == {"pending", "processing", "completed", "failed"}

StatusStep(s, t) ==
    \/ s = t
    \/ s = "pending" /\ t = "processing"
    \/ s = "processing" /\ t \in {"completed", "failed"}

\* a job the store once held and no longer holds
Deleted(job_id) == job_id \in DOMAIN wk /\ job_id \notin DOMAIN jobs

\* this step served a request of kind op
Served(op) == resp' # resp /\ resp'.op = op

\* C1: while a record exists its status moves only along
\* pending -> processing -> (completed | failed): no regression, no step
\* from pending to a terminal status, no change after a terminal status.
C1_StatusOrder ==
    [][\A j \in DOMAIN jobs \cap DOMAIN jobs' :
          /\ jobs[j].status \in Statuses
          /\ jobs'[j].status \in Statuses
          /\ StatusStep(jobs[j].status, jobs'[j].status)]_vars

C1_Witness ==
    /\ LoopFree
    /\ \E j, k \in DOMAIN jobs :
          jobs[j].status = "completed" /\ jobs[k].status = "failed"

RecordConsistent(r) ==
    /\ r.status = "failed" => r.error # None /\ r.stems = None
    /\ r.status = "completed" => r.stems # None /\ r.error = None
    /\ r.status \in {"pending", "processing"} => r.error = None /\ r.stems = None

\* C2: whenever a request handler can run, and in every record GetStatus
\* has returned, failed goes with error set and stems absent, completed
\* with stems set and error absent, pending and processing with neither;
\* the states in which a worker has written only part of an update are
\* states in which the worker holds the event loop.
C2_RecordConsistent ==
    /\ LoopFree => \A j \in DOMAIN jobs : RecordConsistent(jobs[j])
    /\ resp.op = "GetStatus" /\ resp.code = HTTP_OK
          => RecordConsistent(resp.body[1])

C2_Witness ==
    /\ resp.op = "GetStatus" /\ resp.code = HTTP_OK
    /\ resp.body[1].status = "failed"
    /\ resp.body[1].error # None
    /\ \E j \in DOMAIN jobs : jobs[j].status = "completed"
                              /\ jobs[j].stems # None

ProgressTerminal ==
    LoopFree => \A j \in DOMAIN jobs :
        /\ jobs[j].progress \in PROGRESS_START..PROGRESS_DONE
        /\ jobs[j].progress = PROGRESS_DONE <=> jobs[j].status = "completed"

\* C3: a job's progress never decreases, and whenever a handler can run
\* progress is 1.0 exactly for the completed jobs (a failed job keeps a
\* value below 1.0).
C3_Progress ==
    [][/\ ProgressTerminal
       /\ ProgressTerminal'
       /\ \A j \in DOMAIN jobs \cap DOMAIN jobs' :
             jobs'[j].progress >= jobs[j].progress]_vars

C3_Witness ==
    /\ resp.op = "GetStatus" /\ resp.code = HTTP_OK
    /\ resp.body[1].status = "failed"
    /\ resp.body[1].progress = PROGRESS_SEPARATED
    /\ \E j \in DOMAIN jobs : jobs[j].progress = PROGRESS_DONE

PendingStatus(job_id) ==
    Response("GetStatus", job_id, HTTP_OK,
             Some(JobStatus(job_id, "pending", PROGRESS_START)))

\* C4: a successful Submit registers an id that was not a key of the
\* store and overwrites no record; GetStatus on it, right after the
\* Submit and for as long as its worker has not started, returns status
\* pending, progress 0, no error, no stems.
C4_SubmitFresh ==
    [][/\ \A j \in uploads \ uploads' :
             (Served("Submit") /\ resp'.code = HTTP_OK /\ resp'.id = j)
             => /\ j \notin DOMAIN jobs
                /\ \A k \in DOMAIN jobs : k \in DOMAIN jobs' /\ jobs'[k] = jobs[k]
                /\ get_job_status(j)' = PendingStatus(j)
       /\ \A j \in DOMAIN jobs :
             (j \in DOMAIN wk /\ wk[j].pc = "queued")
             => get_job_status(j) = PendingStatus(j)]_vars

C4_Witness ==
    \E j, k \in DOMAIN jobs :
       /\ j # k
       /\ jobs[k].status = "completed"
       /\ wk[j].pc = "queued"
       /\ resp = PendingStatus(j)

\* C5: with the model not loaded every Submit answers 503 and changes
\* nothing: no id, no record, no input file, no worker.
C5_SubmitUnavailable ==
    [][/\ (Served("Submit") /\ ~separator) => resp'.code = HTTP_UNAVAILABLE
       /\ (Served("Submit") /\ resp'.code = HTTP_UNAVAILABLE)
             => /\ ~separator
                /\ UNCHANGED <<jobs, issued, uploads, inputs, outdirs,
                               outfiles, wk, running>>]_vars

C5_Witness ==
    /\ resp.op = "Submit" /\ resp.code = HTTP_UNAVAILABLE
    /\ jobs = <<>> /\ inputs = {} /\ wk = <<>>

\* an id whose Submit ended without a job: generated, no longer uploading,
\* never dispatched
Aborted(job_id) ==
    /\ job_id \in issued
    /\ job_id \notin uploads
    /\ job_id \notin DOMAIN wk

\* C6: a Submit whose staging fails answers 500, registers no record and
\* dispatches no worker, and its id never gets a record or a worker later.
C6_StagingFailure ==
    [][/\ \A j \in uploads \ uploads' :
             (Served("Submit") /\ resp'.code = HTTP_ERROR)
             => jobs' = jobs /\ wk' = wk /\ Aborted(j)'
       /\ \A j \in Ids :
             Aborted(j) => /\ Aborted(j)'
                           /\ j \notin DOMAIN jobs
                           /\ j \notin DOMAIN jobs']_vars

C6_Witness ==
    /\ resp.op = "Submit" /\ resp.code = HTTP_ERROR
    /\ \E j \in Ids : Aborted(j) /\ j \in inputs
    /\ \E k \in DOMAIN jobs : jobs[k].status = "completed"

\* C7: a DownloadStem request for a job in the store that is not
\* completed is answered 400 without content, for every stem name and
\* whatever files its output directory holds.
C7_NotReady ==
    [][/\ (/\ Served("DownloadStem")
           /\ resp'.id \in DOMAIN jobs
           /\ jobs[resp'.id].status # "completed")
          => resp'.code = HTTP_NOT_READY /\ resp'.body = None
       /\ \A j \in DOMAIN jobs, s \in StemNames :
             jobs[j].status # "completed"
             => /\ download_stem(j, s).code = HTTP_NOT_READY
                /\ download_stem(j, s).body = None]_vars

C7_Witness ==
    /\ resp.op = "DownloadStem" /\ resp.code = HTTP_NOT_READY
    /\ resp.id \in DOMAIN jobs
    /\ jobs[resp.id].status = "failed"
    /\ FilesOf(resp.id) # {}

\* the stem is recorded for the completed job and its file is on storage
Downloadable(job_id, stem_name) ==
    /\ job_id \in DOMAIN jobs
    /\ jobs[job_id].status = "completed"
    /\ jobs[job_id].stems # None
    /\ stem_name \in DOMAIN jobs[job_id].stems[1]
    /\ jobs[job_id].stems[1][stem_name] \in outfiles

\* C8: DownloadStem returns a file exactly when the job is in the store,
\* completed, the stem is recorded and its file exists; otherwise a
\* completed job and an unknown id are answered 404.
C8_Download ==
    \A j \in Ids, s \in StemNames :
       LET r == download_stem(j, s)
       IN /\ r.code = HTTP_OK <=> Downloadable(j, s)
          /\ r.code = HTTP_OK => r.body = Some(jobs[j].stems[1][s])
          /\ j \notin DOMAIN jobs => r.code = HTTP_NOT_FOUND
          /\ (/\ j \in DOMAIN jobs
              /\ jobs[j].status = "completed"
              /\ ~Downloadable(j, s)) => r.code = HTTP_NOT_FOUND
          /\ (resp.op = "DownloadStem" /\ resp.code = HTTP_OK)
                => resp.body # None

C8_Witness ==
    \E j \in DOMAIN jobs, s, t \in StemNames :
       /\ jobs[j].status = "completed"
       /\ jobs[j].stems # None
       /\ s \in DOMAIN jobs[j].stems[1]
       /\ jobs[j].stems[1][s] \notin outfiles
       /\ Downloadable(j, t)
       /\ resp = download_stem(j, s)

\* C9: once DeleteJob has removed a job, GetStatus, DownloadStem and
\* DeleteJob on its id answer 404 from then on, whatever its status was
\* and whether or not its worker had run; DeleteJob on an id the store
\* does not hold answers 404 and changes nothing.
C9_DeletedStaysGone ==
    [][/\ \A j \in Ids :
             Deleted(j)
             => /\ Deleted(j)'
                /\ get_job_status(j).code = HTTP_NOT_FOUND
                /\ \A s \in StemNames :
                      download_stem(j, s).code = HTTP_NOT_FOUND
                /\ (Served("DeleteJob") /\ resp'.id = j)
                      => resp'.code = HTTP_NOT_FOUND
       /\ (Served("DeleteJob") /\ resp'.code = HTTP_OK)
             => /\ resp'.id \in DOMAIN jobs
                /\ resp'.id \notin DOMAIN jobs'
                /\ resp'.id \in DOMAIN wk'
       /\ (Served("DeleteJob") /\ resp'.id \notin DOMAIN jobs)
             => /\ resp'.code = HTTP_NOT_FOUND
                /\ UNCHANGED <<jobs, issued, uploads, inputs, outdirs,
                               outfiles, wk, running>>]_vars

C9_Witness ==
    \E j \in Ids :
       /\ Deleted(j)
       /\ wk[j].pc = "crashed"
       /\ resp = Response("DeleteJob", j, HTTP_NOT_FOUND, None)

\* C10: an output directory or stem file of a job exists only while the
\* job is in the store, also for a job deleted before its dispatched
\* worker ran.
C10_OutputsOnlyOfStoredJobs ==
    \A j \in Ids :
       (j \in outdirs \/ FilesOf(j) # {}) => j \in DOMAIN jobs

C10_Witness ==
    \E j, k \in Ids :
       /\ Deleted(j) /\ wk[j].pc = "crashed"
       /\ Deleted(k) /\ wk[k].pc = "done"
       /\ resp.op = "DeleteJob" /\ resp.code = HTTP_OK

\* C11: every exception raised in a worker is caught by the worker, for
\* deleted jobs too: no worker ends with an exception leaving the
\* coroutine, and a worker that has ended and whose job is still in the
\* store has left it completed or failed.
C11_NoEscape ==
    \A j \in DOMAIN wk :
       /\ wk[j].pc # "crashed"
       /\ (wk[j].pc = "done" /\ j \in DOMAIN jobs)
             => jobs[j].status \in {"completed", "failed"}

Terminal(job_id) ==
    job_id \in DOMAIN jobs /\ jobs[job_id].status \in {"completed", "failed"}

\* C12: under fair scheduling every dispatched job that is not deleted
\* reaches completed or failed, and a worker that has ended is never
\* started again (no retry): its pipeline runs at most once.
C12_Terminates ==
    /\ \A j \in Ids :
          (j \in DOMAIN wk) ~> (j \notin DOMAIN jobs \/ Terminal(j))
    /\ [][\A j \in DOMAIN wk :
             /\ j \in DOMAIN wk'
             /\ wk[j].pc # "queued" => wk'[j].pc # "queued"
             /\ wk[j].pc \in {"done", "crashed"} => wk'[j] = wk[j]
             /\ (Terminal(j) /\ wk[j].pc = "done")
                   => (j \notin DOMAIN jobs' \/ jobs'[j] = jobs[j])]_vars

C12_Witness ==
    \E j, k \in DOMAIN wk :
       /\ Terminal(j) /\ jobs[j].status = "failed" /\ wk[j].pc = "done"
       /\ Terminal(k) /\ jobs[k].status = "completed" /\ wk[k].pc = "done"
       /\ LoopFree

\* C13: requests never wait for a worker: whenever some job is being
\* processed (its worker is between its first and its last statement), a
\* GetStatus, a DownloadStem and a DeleteJob request can be served, so
\* that a poll can see status processing.
C13_NeverBlocks ==
    (\E j \in DOMAIN jobs : jobs[j].status = "processing")
    => /\ ENABLED (\E k \in Ids : GetStatus(k))
       /\ ENABLED (\E k \in Ids, s \in StemNames : DownloadStem(k, s))
       /\ ENABLED (\E k \in Ids : DeleteJob(k))

\* the step leaves the record of job k as it is
SameJob(k) ==
    /\ k \in DOMAIN jobs <=> k \in DOMAIN jobs'
    /\ k \in DOMAIN jobs => jobs'[k] = jobs[k]

\* the step leaves the output directory of job k as it is
SameOutputs(k) ==
    /\ k \in outdirs <=> k \in outdirs'
    /\ FilesOf(k)' = FilesOf(k)

\* C14: a record changes only in a step of the worker of that job; a step
\* of the worker of job A, failing or not, leaves the record and the
\* outputs of every other job alone; Submit and DeleteJob leave the
\* records of the other ids alone; GetStatus and DownloadStem change
\* neither the store nor the filesystem.
C14_Frame ==
    [][/\ \A j \in Ids :
             (running = j \/ running' = j)
             => \A k \in Ids \ {j} : SameJob(k) /\ SameOutputs(k)
       /\ \A k \in DOMAIN jobs \cap DOMAIN jobs' :
             jobs'[k] # jobs[k] => (running = k \/ running' = k)
       /\ (Served("GetStatus") \/ Served("DownloadStem"))
             => UNCHANGED <<jobs, inputs, outdirs, outfiles>>
       /\ Served("DeleteJob")
             => \A k \in Ids \ {resp'.id} : SameJob(k) /\ SameOutputs(k)
       /\ Served("Submit")
             => \A k \in DOMAIN jobs : SameJob(k) /\ SameOutputs(k)]_vars

C14_Witness ==
    \E j, k \in DOMAIN jobs :
       /\ j # k
       /\ jobs[k].status = "completed" /\ FilesOf(k) # {}
       /\ running = j /\ wk[j].pc = "l184"
       /\ jobs[j].status = "failed"

InputLifecycle ==
    \A j \in DOMAIN jobs :
       /\ jobs[j].status = "completed" => j \notin inputs
       /\ jobs[j].status = "failed" => j \in inputs

\* C15: a completed job has no input file any more, a failed job still
\* has it, and an input file disappears only in the unlink of line 173 of
\* the worker of that job, on its way to completed: never in DeleteJob,
\* never on the failure path.
C15_InputLifecycle ==
    [][/\ InputLifecycle
       /\ InputLifecycle'
       /\ \A j \in Ids :
             (j \in inputs /\ j \notin inputs')
             => /\ running = j
                /\ wk[j].pc = "l173"
                /\ wk'[j].pc = "l175"]_vars

C15_Witness ==
    \E j, k \in Ids :
       /\ Deleted(j) /\ wk[j].pc = "done" /\ j \in inputs
       /\ k \in DOMAIN jobs /\ jobs[k].status = "completed" /\ k \notin inputs
       /\ resp = Response("DeleteJob", j, HTTP_OK, None)

SourceSet == {Sources[n] : n \in 1..Len(Sources)}

\* m has one entry per declared stem, each the path of an existing file of
\* the output directory of job j
StemsComplete(j, m) ==
    /\ DOMAIN m = SourceSet
    /\ \A s \in SourceSet : m[s] = stem_path(j, s) /\ m[s] \in outfiles
    /\ j \in outdirs

EarlyErrors ==
    {"Model not loaded", "load failed", "resample failed", "separation failed"}

NoEarlyOutput ==
    /\ \A j \in DOMAIN wk :
          wk[j].pc \in {"queued", "l123", "l125", "l134", "l151", "l156",
                        "l158", "l162"}
          => j \notin outdirs /\ FilesOf(j) = {}
    /\ \A j \in DOMAIN jobs :
          (/\ jobs[j].status = "failed"
           /\ jobs[j].error # None
           /\ jobs[j].error[1] \in EarlyErrors)
          => j \notin outdirs /\ FilesOf(j) = {}

ModelMissingOutcome ==
    ~separator =>
       \A j \in DOMAIN jobs \cap DOMAIN wk :
          /\ jobs[j].status \in {"failed", "completed"}
                => /\ jobs[j].status = "failed"
                   /\ jobs[j].progress = PROGRESS_START
                   /\ jobs[j].stems = None
                   /\ j \notin outdirs /\ FilesOf(j) = {}
                   /\ j \in inputs
          /\ wk[j].pc = "done"
                => /\ jobs[j].status = "failed"
                   /\ jobs[j].error = Some("Model not loaded")

\* C18: a worker that runs while the model is not loaded writes status
\* processing and progress 0.0 and then fails the job: the job ends
\* failed with error "Model not loaded", progress 0.0, no output
\* directory and its input file in place, and the worker is not started
\* again.
C18_ModelNotLoaded ==
    [][/\ ModelMissingOutcome
       /\ ModelMissingOutcome'
       /\ ~separator =>
             \A j \in DOMAIN jobs \cap DOMAIN jobs' :
                /\ (jobs[j].status # "failed" /\ jobs'[j].status = "failed")
                      => /\ jobs[j].status = "processing"
                         /\ jobs[j].progress = PROGRESS_START
                         /\ wk[j].exc = "Model not loaded"
                /\ (j \in DOMAIN wk /\ wk[j].pc = "done")
                      => wk'[j] = wk[j] /\ jobs'[j] = jobs[j]]_vars

C18_Witness ==
    /\ ~separator
    /\ \E j \in DOMAIN jobs :
          /\ wk[j].pc = "done"
          /\ jobs[j].status = "failed"
          /\ jobs[j].error = Some("Model not loaded")
          /\ jobs[j].progress = PROGRESS_START
          /\ j \in inputs /\ j \notin outdirs
          /\ resp = get_job_status(j)

\* C19: a deleted job does not come back: no step of its worker, which
\* still runs after the deletion, puts a record for its id into the
\* store; an id enters the store only in a successful Submit and leaves
\* it only in a successful DeleteJob.
C19_NoReappearance ==
    [][/\ \A j \in Ids : Deleted(j) => Deleted(j)'
       /\ (running # NoWorker \/ running' # NoWorker)
             => DOMAIN jobs' = DOMAIN jobs
       /\ \A j \in DOMAIN jobs' \ DOMAIN jobs :
             /\ resp' = Response("Submit", j, HTTP_OK, None)
             /\ j \in uploads
             /\ j \notin DOMAIN wk
       /\ \A j \in DOMAIN jobs \ DOMAIN jobs' :
             resp' = Response("DeleteJob", j, HTTP_OK, None)]_vars

C19_Witness ==
    \E j \in Ids :
       /\ Deleted(j)
       /\ running = j
       /\ wk[j].pc = "l183" /\ wk[j].exc = "KeyError"

\* C20: DeleteJob removes the output tree before the store entry.  For a
\* job without output directory it succeeds and removes the entry; when
\* the removal of an existing tree fails, the request fails and the entry
\* stays as it was, so that GetStatus still returns the job; when it
\* succeeds, neither the tree nor the entry is left.
C20_DeleteOrder ==
    [][Served("DeleteJob") =>
          /\ resp'.code \in {HTTP_OK, HTTP_NOT_FOUND, HTTP_ERROR}
          /\ (resp'.id \in DOMAIN jobs /\ resp'.id \notin outdirs)
                => resp'.code = HTTP_OK
          /\ resp'.code = HTTP_ERROR
                => /\ resp'.id \in DOMAIN jobs
                   /\ resp'.id \in outdirs
                   /\ resp'.id \in outdirs'
                   /\ jobs' = jobs
                   /\ get_job_status(resp'.id) =
                         Response("GetStatus", resp'.id, HTTP_OK,
                                  Some(jobs'[resp'.id]))
          /\ resp'.code = HTTP_OK
                => /\ resp'.id \in DOMAIN jobs
                   /\ resp'.id \notin DOMAIN jobs'
                   /\ resp'.id \notin outdirs'
                   /\ \A f \in outfiles' : f[1] # resp'.id]_vars

C20_Witness ==
    \E j \in DOMAIN jobs :
       /\ resp = Response("DeleteJob", j, HTTP_ERROR, None)
       /\ jobs[j].status = "completed"
       /\ j \in outdirs
       /\ FilesOf(j) # {stem_path(j, s) : s \in SourceSet}
       /\ \E k \in Ids : Deleted(k) /\ k \notin outdirs /\ wk[k].pc = "crashed"

====
